---- MODULE Spec2Model ----
(***************************************************************************)
(* LanguageServerCache (src/unnamed/part_000): the per-resource cache of   *)
(* language servers, its configuration gate (useJedi), the construction    *)
(* with fallback (createServer) and the reactions to workspace-folder and  *)
(* configuration changes.  Every await of the TypeScript code is a         *)
(* suspension point: the code before it and the code after it are          *)
(* separate atomic actions of one promise (one createServer run).  This    *)
(* holds for `await this.logStartup(jedi)` as well: logStartup awaits      *)
(* nothing, but the continuation of its caller still runs in a later       *)
(* microtask, after the code that called get, activate or the event        *)
(* handler has run to its end.  sendTelemetryForChosenLanguageServer is    *)
(* not awaited by useJedi: each of its calls goes on by itself when the    *)
(* storage answers state.updateValue.                                      *)
(***************************************************************************)
EXTENDS Naturals, Sequences, FiniteSets

(* ------------------------------ bounds -------------------------------- *)

\* createServer runs (cache misses) in one behaviour
MaxServers == 2
\* reload prompts open at the same time
MaxPrompts == 1
\* calls of sendTelemetryForChosenLanguageServer that await the storage
MaxTelemetry == 2
\* startup calls on one DotNetServer, those of restarts included
MaxStartups == 2
\* capability requests made of one DotNetServer
MaxRequests == 1
\* changes of the analysis options of one DotNetServer
MaxChanges == 2
\* load-extension commands invoked on one DotNetServer
MaxLoads == 3
\* changes of the active text editor
MaxEditorChanges == 4
\* scopes that set python.jediEnabled in a configuration the gate is explored
\* with
MaxScopesSet == 1

(* ------------------------------ inputs -------------------------------- *)

Undefined == "undefined"

\* workspace folders that can be open, by their identifier
Folders == {"/w", "/w-x"}

\* the (resource, interpreter) arguments get is called with; "/w/a.py" is a
\* file of folder /w
GetInputs == {<<"/w/a.py", "/py">>}

\* the resources activate is called with
ActivateInputs == {"/w"}

\* the value of an unset configuration scope
Unset == "unset"

Scopes == {"global", "workspace"} \cup Folders

\* A/B experiment groups
LSEnabled == "LSEnabled"
LSControl == "LSControl"

\* the edits to python.jediEnabled a configuration-change event can carry
ConfigEdits == {<<"global", "false">>, <<"/w", "true">>}

NothingSet == [s \in Scopes |-> Unset]

\* the sessions explored: experiment membership and initial settings.
\* Control group with nothing set (Jedi everywhere), LSEnabled group with
\* nothing set (language server everywhere), control group with the language
\* server chosen for folder /w only.
Sessions ==
    {<<{LSControl}, NothingSet>>,
     <<{LSEnabled}, NothingSet>>,
     <<{LSControl}, [NothingSet EXCEPT !["/w"] = "false"]>>}

(* ------------------------------- state -------------------------------- *)

VARIABLES
    cache,             \* this.cache: key -> promise (index into promises)
    jediServer,        \* this.jediServer: server index, 0 = undefined
    currentServer,     \* this.currentServer: [jedi, server], server 0 = undefined
    resource,          \* this.resource
    promises,          \* the createServer runs, in creation order
    servers,           \* the server instances obtained from the container
    workspaceFolders,  \* workspaceService.workspaceFolders
    settings,          \* python.jediEnabled at each configuration scope
    experiments,       \* the experiment groups the session is in
    switchLS,          \* persisted state 'SWITCH_LS'
    selectionEvent,    \* last PYTHON_LANGUAGE_SERVER_CURRENT_SELECTION payload
    telemetry,         \* the calls of sendTelemetryForChosenLanguageServer
                       \* that await state.updateValue
    prompts,           \* reload prompts shown and not yet answered
    reloaded,          \* workbench.action.reloadWindow was executed
    item               \* the answer to the last reload prompt

\* one DotNetServer (languageServer/dotNetServer.ts)
VARIABLES
    languageClient,    \* this.languageClient: client index, 0 = undefined
    disposables,       \* this.disposables: subscription indexes, in order
    disposed,          \* this.disposed
    savedArgs,         \* this.resource and this.interpreter
    clients,           \* the language clients the factory has created
    subscriptions,     \* the disposables ever registered
    runs,              \* the startup calls, in call order
    requests,          \* the capability requests made of the server
    changes,           \* the changes of the analysis options so far
    extensionLoadedArgs, \* this.extensionLoadedArgs
    loadRequests,      \* the python/loadExtension calls and what they sent
    restartTimer       \* a debounced restart is scheduled

VARIABLES
    activeServer,      \* VsCodeLanguageServer.activeServer (index into
                       \* servers), 0 while undefined
    activeClientDisposable, \* the server whose onDidChangeCodeLenses is
                       \* subscribed to, 0 while undefined
    editorGets         \* the calls of changedTextEditor, in call order

vars == <<cache, jediServer, currentServer, resource, promises, servers,
          workspaceFolders, settings, experiments, switchLS, selectionEvent,
          telemetry, prompts, reloaded, item, languageClient, disposables, disposed,
          savedArgs, clients, subscriptions, runs, requests, restartTimer,
          changes, extensionLoadedArgs, loadRequests, activeServer,
          activeClientDisposable, editorGets>>

editorVars == <<activeServer, activeClientDisposable, editorGets>>

cacheVars == <<cache, jediServer, currentServer, resource, promises, servers,
               workspaceFolders, settings, experiments, switchLS,
               selectionEvent, telemetry, prompts, reloaded, item>>

extensionVars == <<extensionLoadedArgs, loadRequests>>

serverVars == <<languageClient, disposables, disposed, savedArgs, clients,
                subscriptions, runs, requests, restartTimer, changes,
                extensionVars>>

(* --------------------------- workspace service ------------------------- *)

\* folders whose paths hold the separator getKey writes between the two
\* portions of a key
KeyFolders == {"/w", "/w-/p"}

\* the workspace folder that contains a resource, "" when it is a loose file
ContainingFolder(r) ==
    CASE r \in Folders \cup KeyFolders -> r
      [] r = "/w/a.py" -> "/w"
      [] r = "/w-x/b.py" -> "/w-x"
      [] OTHER         -> ""

\* workspaceService.getWorkspaceFolderIdentifier(resource, defaultValue)
GetWorkspaceFolderIdentifier(r, folders, defaultValue) ==
    IF ContainingFolder(r) \in folders THEN ContainingFolder(r) ELSE defaultValue

workspacePathNameForGlobalWorkspaces == ""

\* getKey: `${resourcePortion}-${interperterPortion}`
GetKey(r, interpreter, folders) ==
    GetWorkspaceFolderIdentifier(r, folders, workspacePathNameForGlobalWorkspaces)
        \o "-" \o interpreter

HasWorkspaceFolders(folders) == folders # {}

(* --------------------------- configuration gate ------------------------ *)

\* the settings of a configuration whose inspect('jediEnabled') gives
\* undefined: the same values, marked by one more key
InspectKey == "inspect"

Uninspectable(st) ==
    [s \in DOMAIN st \cup {InspectKey} |-> IF s = InspectKey THEN Undefined ELSE st[s]]

\* the values getSettings resolves from, whatever inspect gives
ScopeValues(r, st) ==
    [globalValue          |-> st["global"],
     workspaceValue       |-> st["workspace"],
     workspaceFolderValue |->
         IF ContainingFolder(r) \in workspaceFolders
         THEN st[ContainingFolder(r)] ELSE Unset]

\* getConfiguration('python', resource).inspect('jediEnabled'): the three
\* scopes, or undefined (a record without them)
Inspect(r, st) ==
    IF InspectKey \in DOMAIN st THEN [undefined |-> TRUE]
    ELSE [undefined            |-> FALSE,
          globalValue          |-> ScopeValues(r, st).globalValue,
          workspaceValue       |-> ScopeValues(r, st).workspaceValue,
          workspaceFolderValue |-> ScopeValues(r, st).workspaceFolderValue]

\* the default of python.jediEnabled when no scope sets it
HardDefault == TRUE

\* configurationService.getSettings(resource).jediEnabled: the most specific
\* scope that sets the value wins, the default otherwise
JediEnabledSetting(r, st) ==
    LET i == ScopeValues(r, st)
        v == IF i.workspaceFolderValue # Unset THEN i.workspaceFolderValue
             ELSE IF i.workspaceValue # Unset THEN i.workspaceValue
             ELSE i.globalValue
    IN  IF v = Unset THEN HardDefault ELSE v = "true"

\* isJediUsingDefaultConfiguration line 112-119: false when inspect gives
\* undefined
IsJediUsingDefaultConfiguration(r, st) ==
    LET i == Inspect(r, st)
    IN  IF i.undefined THEN FALSE
        ELSE /\ i.globalValue = Unset
             /\ i.workspaceValue = Unset
             /\ i.workspaceFolderValue = Unset

\* a gate that let the LSEnabled experiment decide before any setting
ExperimentFirst(r, st) == LSEnabled \notin experiments

\* a gate that read the setting whatever the experiments
AlwaysReadsSetting(r, st) == TRUE

\* useJedi returns before reading the setting when the default configuration
\* is in use and the session is in the LSEnabled experiment
UseJediReadsSetting(r, st) ==
    ~(IsJediUsingDefaultConfiguration(r, st) /\ LSEnabled \in experiments)

\* useJedi(): the value returned, for this.resource = r and the settings st
UseJedi(r, st) ==
    IF UseJediReadsSetting(r, st) THEN JediEnabledSetting(r, st) ELSE FALSE

NoEvent == <<"none", FALSE>>

BoolSetting(b) == IF b THEN "true" ELSE "false"

\* sendTelemetryForChosenLanguageServer line 95: state.value is not a boolean
NotPersisted(persisted) == persisted = Unset

\* sendTelemetryForChosenLanguageServer line 99: state.value differs from
\* the outcome
Differs(persisted, jediEnabled) == persisted # BoolSetting(jediEnabled)

\* a call of sendTelemetryForChosenLanguageServer(jediEnabled) that awaits
\* state.updateValue.  pc "init": the await of line 96, "switch": the await
\* of line 100; persisted: state.value when the call began
TelemetryCall(jediEnabled, pc) ==
    [jedi |-> jediEnabled, pc |-> pc, persisted |-> switchLS]

\* sendTelemetryForChosenLanguageServer(jediEnabled) up to its first await
\* (line 93-105).  updateValue stores the value at once and its promise
\* settles later; with a stored boolean that equals the outcome nothing is
\* awaited and {lsStartup} is sent in the call
SendTelemetryForChosenLanguageServer(jediEnabled) ==
    IF NotPersisted(switchLS)
    THEN /\ Len(telemetry) < MaxTelemetry
         /\ switchLS' = BoolSetting(jediEnabled)
         /\ telemetry' = Append(telemetry, TelemetryCall(jediEnabled, "init"))
         /\ UNCHANGED selectionEvent
    ELSE IF Differs(switchLS, jediEnabled)
    THEN /\ Len(telemetry) < MaxTelemetry
         /\ switchLS' = BoolSetting(jediEnabled)
         /\ telemetry' = Append(telemetry, TelemetryCall(jediEnabled, "switch"))
         /\ UNCHANGED selectionEvent
    ELSE /\ selectionEvent' = <<"lsStartup", jediEnabled>>
         /\ UNCHANGED <<switchLS, telemetry>>

\* the sequence without its element t
Without(seq, t) == SubSeq(seq, 1, t - 1) \o SubSeq(seq, t + 1, Len(seq))

\* sendTelemetryForChosenLanguageServer line 96-104, as next values of
\* switchLS, selectionEvent and telemetry: the storage answers the
\* updateValue that call t awaits and the call goes on.  After the await of
\* line 96 state.value is read again: when it differs from the outcome the
\* outcome is stored and the call awaits again, otherwise {lsStartup} is
\* sent; after the await of line 100 {switchTo} is sent
TelemetryGoesOn(t) ==
    LET call == telemetry[t]
    IN  IF call.pc = "init" /\ Differs(switchLS, call.jedi)
        THEN /\ switchLS' = BoolSetting(call.jedi)
             /\ telemetry' = [telemetry EXCEPT ![t].pc = "switch"]
             /\ UNCHANGED selectionEvent
        ELSE /\ selectionEvent' =
                   <<IF call.pc = "init" THEN "lsStartup" ELSE "switchTo", call.jedi>>
             /\ telemetry' = Without(telemetry, t)
             /\ UNCHANGED switchLS

\* the state changes of one useJedi() call for this.resource = r (line
\* 125-137)
UseJediEffects(r, st) ==
    IF UseJediReadsSetting(r, st)
    THEN SendTelemetryForChosenLanguageServer(JediEnabledSetting(r, st))
    ELSE UNCHANGED <<switchLS, selectionEvent, telemetry>>

(* ----------------------------- the cache ------------------------------- *)

NoServer == [jedi |-> FALSE, server |-> 0]

\* no reload prompt has been answered
NoAnswer == "none"

\* the errors a createServer run can throw: the one diagnose rejected with,
\* or the one the startup of instance h rejected with
NoError == [source |-> "none", server |-> 0]

DiagnoseError == [source |-> "diagnose", server |-> 0]

StartupError(h) == [source |-> "startup", server |-> h]

Settled(p) == promises[p].pc \in {"resolved", "rejected"}

\* an instance obtained from the container by createServer run p, on which
\* startup(r, interpreter) has been called once and has not settled
NewServer(type, p, r, interpreter) ==
    [type |-> type, promise |-> p, startups |-> 1, startup |-> "pending",
     resource |-> r, interpreter |-> interpreter, disposed |-> FALSE]

\* the startup promise of instance h settles
StartupSettled(svs, h, ok) ==
    [svs EXCEPT ![h].startup = IF ok THEN "resolved" ELSE "rejected"]

\* LanguageServerType of the server asked of the container
ServerName(jedi) == IF jedi THEN "Jedi" ELSE "DotNet"

\* server.dispose() on instance h
DisposeServer(svs, h) == [svs EXCEPT ![h].disposed = TRUE]

\* startup has not been called
NoArgs == [resource |-> Undefined, interpreter |-> ""]

\* a subscription registered for client c (0: for no client)
Subscription(kind, c) == [kind |-> kind, client |-> c, disposes |-> 0]

\* DotNetServer after its constructor (line 56-78): the onDidChange handler
\* of the analysis options is registered in this.disposables
NewDotNetServer ==
    /\ languageClient = 0
    /\ subscriptions = <<Subscription("onDidChange", 0)>>
    /\ disposables = <<1>>
    /\ disposed = FALSE
    /\ savedArgs = NoArgs
    /\ clients = <<>>
    /\ runs = <<>>
    /\ requests = <<>>
    /\ restartTimer = FALSE
    /\ changes = 0
    /\ extensionLoadedArgs = {}
    /\ loadRequests = <<>>

\* the resources of the documents an editor can show, in two workspace
\* folders
EditorResources == {"/w/a.py", "/w-x/b.py"}

\* VsCodeLanguageServer after its constructor (vscodeLanguageServer.ts line
\* 44-56)
NewVsCodeLanguageServer ==
    /\ activeServer = 0
    /\ activeClientDisposable = 0
    /\ editorGets = <<>>

Init ==
    /\ cache = <<>>
    /\ jediServer = 0
    /\ currentServer = NoServer
    /\ resource = Undefined
    /\ promises = <<>>
    /\ servers = <<>>
    /\ workspaceFolders \in SUBSET Folders
    /\ \E session \in Sessions :
          /\ experiments = session[1]
          /\ settings = session[2]
    /\ switchLS = Unset
    /\ selectionEvent = NoEvent
    /\ telemetry = <<>>
    /\ prompts = 0
    /\ reloaded = FALSE
    /\ item = NoAnswer
    /\ NewDotNetServer
    /\ NewVsCodeLanguageServer

\* a get that never found a cached promise
NeverCached(key) == FALSE

\* a get that constructed again when the cached promise had rejected
HitUnlessRejected(key) ==
    /\ key \in DOMAIN cache
    /\ promises[cache[key]].pc # "rejected"

\* get line 80-81: the cache holds a promise for the key
CacheHit(key) == key \in DOMAIN cache

\* createServer line 161: Jedi was chosen by useJedi and the singleton exists
ReusesJediServer(jedi) == jedi /\ jediServer # 0

\* a catch block that rethrew every failure
AlwaysRethrows(pr) == TRUE

\* a catch block that never rethrew
NeverRethrows(pr) == FALSE

\* createServer line 173-175: a failed startup is rethrown when the server
\* that failed is the Jedi one; otherwise the fallback runs
Rethrows(pr) == pr.jedi

\* createServer line 166-171 for the local jedi of promise record pr: obtain a
\* server from the container, record it as currentServer, call
\* startup(resource) and await it
ObtainAndStart(p, pr) ==
    /\ servers' = Append(servers,
                         NewServer(ServerName(pr.jedi), p, pr.resource, ""))
    /\ currentServer' = [jedi |-> pr.jedi, server |-> Len(servers) + 1]

AwaitingStartup(pr) ==
    [pr EXCEPT !.pc = "startup", !.first = Len(servers) + 1,
               !.server = Len(servers) + 1]

\* the promise record of a createServer run that has just called useJedi
\* (pc "diagnose": the run awaits diagnose, line 155; "new": it awaits
\* logStartup, line 165, and has no server yet; "startup": it awaits the
\* startup of line 171; "fallback": it awaits logStartup in the catch block,
\* line 177; "fallbackStartup": it awaits the startup of line 181; folder:
\* the resourcePortion of its key; singleton: this.jediServer when the run
\* began; platformEvents: the PYTHON_LANGUAGE_SERVER_PLATFORM_SUPPORTED
\* events the run has sent; thens: the then-callbacks of line 146 attached
\* while the promise was pending; queued: those that are due and have not
\* run yet)
NewPromise(r, interpreter, key, jedi) ==
    [pc |-> "new", key |-> key,
     folder |-> GetWorkspaceFolderIdentifier(r, workspaceFolders,
                                             workspacePathNameForGlobalWorkspaces),
     resource |-> r, interpreter |-> interpreter, singleton |-> jediServer,
     chosen |-> jedi, jedi |-> jedi, diagnostic |-> "none", first |-> 0,
     server |-> 0, error |-> NoError, thens |-> 0, queued |-> 0,
     shared |-> FALSE,
     platformEvents |-> 0]

\* get line 85 on a cache hit: the cached promise is returned once more.
\* shared: a pending promise has a further caller waiting on it.
Returned(pr) ==
    IF pr.pc \in {"resolved", "rejected"} THEN pr ELSE [pr EXCEPT !.shared = TRUE]

\* an eviction whose then-callbacks were never run
NoCallback(pr) == 0

\* the then-callbacks an eviction attached to a pending promise
\* (onWorkspaceFoldersChanged line 146) are queued when it resolves
CallbacksOnResolve(pr) == pr.thens

\* createServer line 189: the promise resolves with the server; its waiting
\* callers are notified and its then-callbacks are queued
Resolve(pr) ==
    [pr EXCEPT !.pc = "resolved", !.shared = FALSE,
               !.queued = CallbacksOnResolve(pr)]

\* a createServer that swallowed the error and returned its server
SwallowsError(pr, error) == Resolve(pr)

\* createServer line 155, 174, 181: an error leaves createServer and the
\* promise rejects with it
Reject(pr, error) == [pr EXCEPT !.pc = "rejected", !.error = error, !.shared = FALSE]

\* the place in the microtask queue a then-callback of changedTextEditor
\* that becomes due now is given: behind the callbacks that are due already
NextTicket ==
    LET tickets == {editorGets[g].queued : g \in DOMAIN editorGets} \cup {0}
    IN  1 + CHOOSE m \in tickets : \A n \in tickets : n <= m

\* vscodeLanguageServer.ts line 166, in a step of createServer: the
\* then-callbacks changedTextEditor attached to a promise that was pending
\* are due when the step resolves the promise, in the order they were
\* attached, and never run when it rejects the promise (ignoreErrors drops
\* the error).  done: the callback has run or never will
EditorFollows ==
    /\ editorGets' = [g \in DOMAIN editorGets |->
          IF \/ editorGets[g].done
             \/ editorGets[g].queued > 0
             \/ promises[editorGets[g].promise].pc
                   = promises'[editorGets[g].promise].pc
          THEN editorGets[g]
          ELSE IF promises'[editorGets[g].promise].pc = "resolved"
          THEN [editorGets[g] EXCEPT !.queued = NextTicket]
          ELSE IF promises'[editorGets[g].promise].pc = "rejected"
          THEN [editorGets[g] EXCEPT !.done = TRUE]
          ELSE editorGets[g]]
    /\ UNCHANGED <<activeServer, activeClientDisposable>>

\* createServer(resource, interpreter) up to its first await, with
\* this.resource = res; the promise it returns is stored under key
CreateServer(r, interpreter, res, key) ==
    LET pr == NewPromise(r, interpreter, key, UseJedi(res, settings))
    IN  /\ UseJediEffects(res, settings)
        /\ IF ~pr.jedi
           THEN /\ promises' = Append(promises, [pr EXCEPT !.pc = "diagnose"])
                /\ UNCHANGED <<servers, currentServer>>
           ELSE IF ReusesJediServer(pr.jedi)
           THEN /\ promises' = Append(promises,
                       [pr EXCEPT !.pc = "resolved", !.server = jediServer])
                /\ UNCHANGED <<servers, currentServer>>
           ELSE /\ promises' = Append(promises, pr)
                /\ UNCHANGED <<servers, currentServer>>

\* get(resource, interpreter) with this.resource = res
GetWith(r, interpreter, res) ==
    LET key == GetKey(r, interpreter, workspaceFolders)
    IN  /\ ~reloaded
        /\ IF CacheHit(key)
           THEN /\ promises' = [promises EXCEPT ![cache[key]] = Returned(@)]
                /\ UNCHANGED <<cache, servers, currentServer, switchLS,
                               selectionEvent, telemetry>>
           ELSE /\ Len(promises) < MaxServers
                /\ CreateServer(r, interpreter, res, key)
                /\ cache' = [k \in DOMAIN cache \cup {key} |->
                                IF k = key THEN Len(promises) + 1 ELSE cache[k]]
        /\ UNCHANGED <<jediServer, workspaceFolders, settings, experiments,
                       prompts, reloaded, item, serverVars>>

Get(r, interpreter) ==
    /\ GetWith(r, interpreter, resource)
    /\ UNCHANGED <<resource, editorVars>>

Activate(r) ==
    /\ resource' = r
    /\ GetWith(r, "", r)
    /\ UNCHANGED editorVars

\* a createServer that ignored the diagnostics
NeverFound(outcome) == FALSE

\* createServer line 157: diagnose resolved with a non-empty list
DiagnosticFound(outcome) == outcome = "unsupported"

\* createServer line 155-165: lsNotSupportedDiagnosticService.diagnose
\* settles; unless it rejected, the run goes on to its await of logStartup
DiagnoseSettles(p, outcome) ==
    LET pr == [promises[p] EXCEPT
                  !.diagnostic = outcome,
                  !.jedi = DiagnosticFound(outcome),
                  !.platformEvents = IF DiagnosticFound(outcome) THEN @ + 1 ELSE @]
    IN  /\ ~reloaded
        /\ promises[p].pc = "diagnose"
        /\ IF outcome = "rejected"
           THEN promises' = [promises EXCEPT ![p] = Reject(pr, DiagnoseError)]
           ELSE promises' = [promises EXCEPT ![p] = [pr EXCEPT !.pc = "new"]]
        /\ UNCHANGED <<cache, jediServer, currentServer, resource, servers,
                       workspaceFolders, settings, experiments, switchLS,
                       selectionEvent, telemetry, prompts, reloaded, item,
                       serverVars>>
        /\ EditorFollows

\* createServer line 165-171: the await of logStartup is over; the server is
\* obtained, recorded as currentServer and started
LogStartupSettles(p) ==
    /\ ~reloaded
    /\ promises[p].pc = "new"
    /\ promises' = [promises EXCEPT ![p] = AwaitingStartup(@)]
    /\ ObtainAndStart(p, promises[p])
    /\ UNCHANGED <<cache, jediServer, resource, workspaceFolders, settings,
                   experiments, switchLS, selectionEvent, telemetry, prompts,
                   reloaded, item, serverVars>>
    /\ EditorFollows

\* createServer line 184-189: remember a Jedi server as the singleton and
\* resolve the promise with the server
JediServerAfter(pr) == IF pr.jedi THEN pr.server ELSE jediServer

\* createServer line 178-181: obtain a Jedi server, record it as
\* currentServer, call startup(resource, interpreter) and await it
Fallback(p, pr) ==
    /\ servers' = Append(servers,
                         NewServer("Jedi", p, pr.resource, pr.interpreter))
    /\ currentServer' = [jedi |-> TRUE, server |-> Len(servers) + 1]

\* createServer line 170-177: the first startup settles; a failure of the
\* language server sets jedi and the run awaits logStartup once more
StartupSettles(p, ok) ==
    /\ ~reloaded
    /\ promises[p].pc = "startup"
    /\ IF ok
       THEN /\ promises' = [promises EXCEPT ![p] = Resolve(@)]
            /\ jediServer' = JediServerAfter(promises[p])
            /\ servers' = StartupSettled(servers, promises[p].server, TRUE)
            /\ UNCHANGED currentServer
       ELSE IF Rethrows(promises[p])
       THEN /\ promises' = [promises EXCEPT ![p] = Reject(@, StartupError(@.server))]
            /\ servers' = StartupSettled(servers, promises[p].server, FALSE)
            /\ UNCHANGED <<jediServer, currentServer>>
       ELSE /\ promises' = [promises EXCEPT ![p].jedi = TRUE,
                                            ![p].pc = "fallback"]
            /\ servers' = StartupSettled(servers, promises[p].server, FALSE)
            /\ UNCHANGED <<jediServer, currentServer>>
    /\ UNCHANGED <<cache, resource, workspaceFolders, settings, experiments,
                   switchLS, selectionEvent, telemetry, prompts, reloaded, item,
                   serverVars>>
    /\ EditorFollows

\* createServer line 177-181: the await of logStartup in the catch block is
\* over; the Jedi server is obtained, recorded as currentServer and started
FallbackLogStartupSettles(p) ==
    /\ ~reloaded
    /\ promises[p].pc = "fallback"
    /\ promises' = [promises EXCEPT ![p].pc = "fallbackStartup",
                                    ![p].server = Len(servers) + 1]
    /\ Fallback(p, promises[p])
    /\ UNCHANGED <<cache, jediServer, resource, workspaceFolders, settings,
                   experiments, switchLS, selectionEvent, telemetry, prompts,
                   reloaded, item, serverVars>>
    /\ EditorFollows

\* createServer line 181-189: the fallback startup settles
FallbackStartupSettles(p, ok) ==
    /\ ~reloaded
    /\ promises[p].pc = "fallbackStartup"
    /\ IF ok
       THEN /\ promises' = [promises EXCEPT ![p] = Resolve(@)]
            /\ jediServer' = JediServerAfter(promises[p])
            /\ servers' = StartupSettled(servers, promises[p].server, TRUE)
       ELSE /\ promises' = [promises EXCEPT ![p] = Reject(@, StartupError(@.server))]
            /\ servers' = StartupSettled(servers, promises[p].server, FALSE)
            /\ UNCHANGED jediServer
    /\ UNCHANGED <<cache, currentServer, resource, workspaceFolders, settings,
                   experiments, switchLS, selectionEvent, telemetry, prompts,
                   reloaded, item, serverVars>>
    /\ EditorFollows

\* a dispose() that went through every server
AnyHandle(h) == TRUE

\* dispose line 89-90: the server dispose() is called on
CurrentHandle(h) == h = currentServer.server

\* dispose(): the current server only
Dispose ==
    /\ ~reloaded
    /\ servers' = [h \in DOMAIN servers |->
          IF CurrentHandle(h) THEN [servers[h] EXCEPT !.disposed = TRUE]
                              ELSE servers[h]]
    /\ UNCHANGED <<cache, jediServer, currentServer, resource, promises,
                   workspaceFolders, settings, experiments, switchLS,
                   selectionEvent, telemetry, prompts, reloaded, item,
                   serverVars, editorVars>>

\* onWorkspaceFoldersChanged line 141: the keys of the open workspace folders
WorkspaceKeys(folders) == {GetKey(f, "", folders) : f \in folders}

\* onWorkspaceFoldersChanged line 142-143: the cached keys to evict
ActivatedWkspcFoldersRemoved(folders) ==
    {k \in DOMAIN cache : k \notin WorkspaceKeys(folders)}

\* onDidChangeWorkspaceFolders fires with the new set of folders.
\* undefinedList: workspaceService.workspaceFolders is undefined, which it
\* may be when no folder is open; line 141 then throws and the handler does
\* nothing.  Otherwise every evicted promise gets a then-callback (line 146):
\* on a resolved promise it is queued, a pending one keeps it until it
\* resolves, on a rejected one it never runs.
OnWorkspaceFoldersChanged(folders, undefinedList) ==
    LET removed == ActivatedWkspcFoldersRemoved(folders)
        gone    == {cache[k] : k \in removed}
    IN  /\ ~reloaded
        /\ folders # workspaceFolders
        /\ undefinedList => folders = {}
        /\ workspaceFolders' = folders
        /\ IF undefinedList
           THEN UNCHANGED <<promises, cache>>
           ELSE /\ promises' = [p \in DOMAIN promises |->
                      IF p \notin gone THEN promises[p]
                      ELSE IF promises[p].pc = "resolved"
                      THEN [promises[p] EXCEPT !.queued = @ + 1]
                      ELSE IF ~Settled(p)
                      THEN [promises[p] EXCEPT !.thens = @ + 1]
                      ELSE promises[p]]
                /\ cache' = [k \in DOMAIN cache \ removed |-> cache[k]]
        /\ UNCHANGED <<jediServer, currentServer, resource, servers, settings,
                       experiments, switchLS, selectionEvent, telemetry,
                       prompts, reloaded, item, serverVars, editorVars>>

\* onWorkspaceFoldersChanged line 146: a queued then-callback of promise p
\* runs and calls dispose on the server the promise resolved to
ThenCallback(p) ==
    /\ ~reloaded
    /\ promises[p].queued > 0
    /\ promises' = [promises EXCEPT ![p].queued = @ - 1]
    /\ servers' = DisposeServer(servers, promises[p].server)
    /\ UNCHANGED <<cache, jediServer, currentServer, resource,
                   workspaceFolders, settings, experiments, switchLS,
                   selectionEvent, telemetry, prompts, reloaded, item,
                   serverVars, editorVars>>

\* a configuration-change event about a setting other than python.jediEnabled
OtherSetting == <<"other", Unset>>

\* event.affectsConfiguration('python.jediEnabled', uri) for an event that
\* carries edit; uri is a folder URI, or Undefined when no folder is open
AffectsConfiguration(edit, uri) ==
    CASE edit[1] = "other" -> FALSE
      [] edit[1] \in {"global", "workspace"} -> TRUE
      [] OTHER -> uri = Undefined \/ ContainingFolder(uri) = edit[1]

\* onDidChangeConfiguration line 200-205
AffectsAnyWorkspace(edit) ==
    LET workspacesUris == IF HasWorkspaceFolders(workspaceFolders)
                          THEN workspaceFolders ELSE {Undefined}
    IN  \E uri \in workspacesUris : AffectsConfiguration(edit, uri)

\* a handler that prompted whatever the current server
NeverSame(jedi) == FALSE

\* onDidChangeConfiguration line 207: the current server is of the kind wanted
SameAsCurrent(jedi) == currentServer.server # 0 /\ currentServer.jedi = jedi

\* the edit is applied to the settings, then onDidChangeConfiguration runs up
\* to its await of showInformationMessage
OnDidChangeConfiguration(edit) ==
    /\ ~reloaded
    /\ edit[1] \in Folders => edit[1] \in workspaceFolders
    /\ IF edit = OtherSetting
       THEN UNCHANGED settings
       ELSE /\ settings[edit[1]] # edit[2]
            /\ settings' = [settings EXCEPT ![edit[1]] = edit[2]]
    /\ IF ~AffectsAnyWorkspace(edit)
       THEN UNCHANGED <<switchLS, selectionEvent, telemetry, prompts>>
       ELSE /\ UseJediEffects(resource, settings')
            /\ IF SameAsCurrent(UseJedi(resource, settings'))
               THEN UNCHANGED prompts
               ELSE /\ prompts < MaxPrompts
                    /\ prompts' = prompts + 1
    /\ UNCHANGED <<cache, jediServer, currentServer, resource, promises,
                   servers, workspaceFolders, experiments, reloaded, item, serverVars, editorVars>>

\* localize.LanguageService.reloadButton()
ReloadButton == "Reload"

\* what showInformationMessage can resolve to: the button, or undefined when
\* the message is dismissed
Answers == {ReloadButton, Undefined}

\* a handler that reloaded the window whatever the answer
AlwaysReloads(answer) == TRUE

\* onDidChangeConfiguration line 215: the reload button was chosen
ReloadChosen(answer) == answer = ReloadButton

\* onDidChangeConfiguration line 211-217: the user answers the prompt
PromptAnswered(answer) ==
    /\ ~reloaded
    /\ prompts > 0
    /\ prompts' = prompts - 1
    /\ item' = answer
    /\ reloaded' = ReloadChosen(answer)
    /\ UNCHANGED <<cache, jediServer, currentServer, resource, promises,
                   servers, workspaceFolders, settings, experiments, switchLS,
                   selectionEvent, telemetry, serverVars, editorVars>>

\* a useJedi() call from outside the cache (line 125-137)
UseJediCall ==
    /\ ~reloaded
    /\ UseJediEffects(resource, settings)
    /\ UNCHANGED <<cache, jediServer, currentServer, resource, promises,
                   servers, workspaceFolders, settings, experiments, prompts,
                   reloaded, item, serverVars, editorVars>>

\* a sendTelemetryForChosenLanguageServer(jediEnabled) call from outside the
\* cache (line 93-105)
SendTelemetryCall(jediEnabled) ==
    /\ ~reloaded
    /\ SendTelemetryForChosenLanguageServer(jediEnabled)
    /\ UNCHANGED <<cache, jediServer, currentServer, resource, promises,
                   servers, workspaceFolders, settings, experiments, prompts,
                   reloaded, item, serverVars, editorVars>>

\* the storage answers the state.updateValue that call t of
\* sendTelemetryForChosenLanguageServer awaits (line 96-104)
StorageAnswers(t) ==
    /\ ~reloaded
    /\ TelemetryGoesOn(t)
    /\ UNCHANGED <<cache, jediServer, currentServer, resource, promises,
                   servers, workspaceFolders, settings, experiments, prompts,
                   reloaded, item, serverVars, editorVars>>

\* gets, the steps of the constructions and workspace-folder events
Next ==
    \/ \E in \in GetInputs : Get(in[1], in[2])
    \/ \E r \in ActivateInputs : Activate(r)
    \/ \E p \in DOMAIN promises :
          \E outcome \in {"supported", "unsupported", "rejected"} :
             DiagnoseSettles(p, outcome)
    \/ \E p \in DOMAIN promises : LogStartupSettles(p)
    \/ \E p \in DOMAIN promises, ok \in BOOLEAN : StartupSettles(p, ok)
    \/ \E p \in DOMAIN promises : FallbackLogStartupSettles(p)
    \/ \E p \in DOMAIN promises, ok \in BOOLEAN : FallbackStartupSettles(p, ok)
    \/ \E t \in DOMAIN telemetry : StorageAnswers(t)
    \/ \E folders \in SUBSET Folders, undefinedList \in BOOLEAN :
          OnWorkspaceFoldersChanged(folders, undefinedList)
    \/ \E p \in DOMAIN promises : ThenCallback(p)

Spec == Init /\ [][Next]_vars

\* the same with dispose() and configuration-change events
NextAll ==
    \/ Next
    \/ Dispose
    \/ \E edit \in ConfigEdits \cup {OtherSetting} : OnDidChangeConfiguration(edit)
    \/ \E answer \in Answers : PromptAnswered(answer)
    \/ UseJediCall
    \/ \E jediEnabled \in BOOLEAN : SendTelemetryCall(jediEnabled)

SpecAll == Init /\ [][NextAll]_vars

\* gets, the steps of the constructions and dispose(), with the workspace
\* folders fixed
NextLifecycle ==
    \/ \E in \in GetInputs : Get(in[1], in[2])
    \/ \E r \in ActivateInputs : Activate(r)
    \/ \E p \in DOMAIN promises :
          \E outcome \in {"supported", "unsupported", "rejected"} :
             DiagnoseSettles(p, outcome)
    \/ \E p \in DOMAIN promises : LogStartupSettles(p)
    \/ \E p \in DOMAIN promises, ok \in BOOLEAN : StartupSettles(p, ok)
    \/ \E p \in DOMAIN promises : FallbackLogStartupSettles(p)
    \/ \E p \in DOMAIN promises, ok \in BOOLEAN : FallbackStartupSettles(p, ok)
    \/ \E t \in DOMAIN telemetry : StorageAnswers(t)
    \/ Dispose

SpecLifecycle == Init /\ [][NextLifecycle]_vars

\* gets, the steps of the constructions and configuration-change events, with
\* the workspace folders fixed
NextConfiguration ==
    \/ \E in \in GetInputs : Get(in[1], in[2])
    \/ \E r \in ActivateInputs : Activate(r)
    \/ \E p \in DOMAIN promises :
          \E outcome \in {"supported", "unsupported", "rejected"} :
             DiagnoseSettles(p, outcome)
    \/ \E p \in DOMAIN promises : LogStartupSettles(p)
    \/ \E p \in DOMAIN promises, ok \in BOOLEAN : StartupSettles(p, ok)
    \/ \E p \in DOMAIN promises : FallbackLogStartupSettles(p)
    \/ \E p \in DOMAIN promises, ok \in BOOLEAN : FallbackStartupSettles(p, ok)
    \/ \E t \in DOMAIN telemetry : StorageAnswers(t)
    \/ \E edit \in ConfigEdits \cup {OtherSetting} : OnDidChangeConfiguration(edit)
    \/ \E answer \in Answers : PromptAnswered(answer)

SpecConfiguration == Init /\ [][NextConfiguration]_vars

\* calls of useJedi() and of sendTelemetryForChosenLanguageServer from
\* outside the cache, and the answers of the storage
NextTelemetry ==
    \/ UseJediCall
    \/ \E jediEnabled \in BOOLEAN : SendTelemetryCall(jediEnabled)
    \/ \E t \in DOMAIN telemetry : StorageAnswers(t)

SpecTelemetry == Init /\ [][NextTelemetry]_vars

(* ---------------------------- DotNetServer ----------------------------- *)
(* languageServer/dotNetServer.ts.  A startup call is a run; each await of   *)
(* startup and startLanguageClient is a suspension point of the run.        *)

\* the arguments startup is called with
StartupInputs == {[resource |-> "/w", interpreter |-> "/py"]}

\* the provide* methods of the server
RequestKinds ==
    {"rename", "definition", "hover", "references", "completion", "codeLens",
     "documentSymbols", "signatureHelp"}

\* startup line 93-99: a run that has saved its arguments and awaits
\* ensureLanguageServerIsAvailable.  client: the client the run created;
\* registered: the run did the registrations of line 336-347; activated: it
\* called testManager.activate
NewRun(args) ==
    [pc |-> "ensure", args |-> args, client |-> 0, registered |-> FALSE,
     activated |-> FALSE]

\* a client the factory created for run r; start() has been called on it
NewClient(r) ==
    [run |-> r, started |-> TRUE, stops |-> 0, stopRejected |-> FALSE,
     initializeResult |-> FALSE]

RunSettled(r) == runs[r].pc \in {"resolved", "rejected"}

\* startup(resource, interpreter) up to its first await
Startup(args) ==
    /\ Len(runs) < MaxStartups
    /\ savedArgs' = args
    /\ runs' = Append(runs, NewRun(args))
    /\ UNCHANGED <<languageClient, disposables, disposed, clients,
                   subscriptions, requests, restartTimer, changes,
                   extensionVars, cacheVars, editorVars>>

\* startup line 99: ensureLanguageServerIsAvailable settles (it rejects when
\* the download fails)
EnsureSettles(r, ok) ==
    /\ runs[r].pc = "ensure"
    /\ runs' = [runs EXCEPT ![r].pc = IF ok THEN "initialize" ELSE "rejected"]
    /\ UNCHANGED <<languageClient, disposables, disposed, savedArgs, clients,
                   subscriptions, requests, restartTimer, changes,
                   extensionVars, cacheVars, editorVars>>

\* startup line 102: analysisOptions.initialize settles
InitializeSettles(r, ok) ==
    /\ runs[r].pc = "initialize"
    /\ runs' = [runs EXCEPT ![r].pc = IF ok THEN "options" ELSE "rejected"]
    /\ UNCHANGED <<languageClient, disposables, disposed, savedArgs, clients,
                   subscriptions, requests, restartTimer, changes,
                   extensionVars, cacheVars, editorVars>>

\* startLanguageClient line 328: nothing is done when a client exists
HasLanguageClient == languageClient # 0

\* startup line 105, startLanguageClient line 328-329: getAnalysisOptions
\* settles and startLanguageClient runs up to its await of the factory
OptionsSettle(r, ok) ==
    /\ runs[r].pc = "options"
    /\ runs' = [runs EXCEPT ![r].pc =
                    IF ~ok THEN "rejected"
                    ELSE IF HasLanguageClient THEN "resolved" ELSE "create"]
    /\ UNCHANGED <<languageClient, disposables, disposed, savedArgs, clients,
                   subscriptions, requests, restartTimer, changes,
                   extensionVars, cacheVars, editorVars>>

\* startLanguageClient line 329-331, serverReady line 312-313: the factory
\* settles; the client is stored and started, its start subscription is
\* pushed and the readiness poll begins to sleep
CreateSettles(r, ok) ==
    /\ runs[r].pc = "create"
    /\ IF ok
       THEN /\ clients' = Append(clients, NewClient(r))
            /\ languageClient' = Len(clients) + 1
            /\ subscriptions' =
                  Append(subscriptions, Subscription("start", Len(clients) + 1))
            /\ disposables' = Append(disposables, Len(subscriptions) + 1)
            /\ runs' = [runs EXCEPT ![r].pc = "ready",
                                    ![r].client = Len(clients) + 1]
       ELSE /\ runs' = [runs EXCEPT ![r].pc = "rejected"]
            /\ UNCHANGED <<languageClient, disposables, clients, subscriptions>>
    /\ UNCHANGED <<disposed, savedArgs, requests, restartTimer, changes,
                   extensionVars, cacheVars, editorVars>>

\* serverReady line 312: the poll goes on sleeping
StillWaiting ==
    /\ languageClient # 0
    /\ ~clients[languageClient].initializeResult

\* startLanguageClient line 332-335: the server was disposed in the interim
ReturnsEarly(d) == d

\* serverReady line 312-314, startLanguageClient line 332-348: a sleep of the
\* readiness poll ends.  The poll sleeps again, or serverReady returns and
\* the run either returns because the server is disposed or registers
\* progress reporting, the telemetry handler and the command and awaits
\* testManager.activate
Poll(r) ==
    /\ runs[r].pc = "ready"
    /\ IF StillWaiting
       THEN UNCHANGED <<runs, subscriptions, disposables>>
       ELSE IF ReturnsEarly(disposed)
       THEN /\ runs' = [runs EXCEPT ![r].pc = "resolved"]
            /\ UNCHANGED <<subscriptions, disposables>>
       ELSE /\ subscriptions' = subscriptions \o
                  <<Subscription("progress", languageClient),
                    Subscription("command", languageClient)>>
            /\ disposables' = disposables \o
                  <<Len(subscriptions) + 1, Len(subscriptions) + 2>>
            /\ runs' = [runs EXCEPT ![r].pc = "testServices",
                                    ![r].registered = TRUE,
                                    ![r].activated = languageClient # 0]
    /\ UNCHANGED <<languageClient, disposed, savedArgs, clients, requests,
                   restartTimer, changes,
                   extensionVars, cacheVars, editorVars>>

\* registerTestServices line 317-323: testManager.activate settles; its
\* rejection is swallowed
TestServicesSettle(r, ok) ==
    /\ runs[r].pc = "testServices"
    /\ runs' = [runs EXCEPT ![r].pc = "resolved"]
    /\ UNCHANGED <<languageClient, disposables, disposed, savedArgs, clients,
                   subscriptions, requests, restartTimer, changes,
                   extensionVars, cacheVars, editorVars>>

\* the language server answers the initialize request of client c
ClientInitializes(c) ==
    /\ clients[c].started
    /\ clients[c].stops = 0
    /\ ~clients[c].initializeResult
    /\ clients' = [clients EXCEPT ![c].initializeResult = TRUE]
    /\ UNCHANGED <<languageClient, disposables, disposed, savedArgs,
                   subscriptions, runs, requests, restartTimer, changes,
                   extensionVars, cacheVars, editorVars>>

\* a dispose that kept its reference to the client
KeepsClient(c) == c

\* dispose line 84
ClientAfterDispose(c) == 0

\* dispose line 81-83: stop() is called on the client, if any
\* whose promise resolves (ok) or rejects
StopClient(cl, c, ok) ==
    IF c # 0
    THEN [cl EXCEPT ![c].stops = @ + 1, ![c].stopRejected = ~ok] ELSE cl

\* a dispose that awaited stop() and let its rejection through
ThrowsOnRejection(ok) == ~ok

\* dispose line 82-83: stop() is not awaited and its rejection is logged
StopThrows(ok) == FALSE

\* dispose line 86-89: every disposable of the list is disposed
DisposeAll(subs, ds) ==
    [i \in DOMAIN subs |->
        IF \E j \in DOMAIN ds : ds[j] = i
        THEN [subs[i] EXCEPT !.disposes = @ + 1] ELSE subs[i]]

\* dispose line 80-91
DisposeEffects(stopOk) ==
    /\ clients' = StopClient(clients, languageClient, stopOk)
    /\ IF HasLanguageClient /\ StopThrows(stopOk)
       THEN UNCHANGED <<languageClient, subscriptions, disposables, disposed>>
       ELSE /\ languageClient' = ClientAfterDispose(languageClient)
            /\ subscriptions' = DisposeAll(subscriptions, disposables)
            /\ disposables' = <<>>
            /\ disposed' = TRUE

\* DotNetServer.dispose()
ServerDispose ==
    /\ \E stopOk \in BOOLEAN : DisposeEffects(stopOk)
    /\ UNCHANGED <<savedArgs, runs, requests, restartTimer, changes,
                   extensionVars, cacheVars, editorVars>>

\* constructor line 76: the handler of onDidChange is called while its
\* subscription is not disposed
HandlerRegistered == subscriptions[1].disposes = 0

\* constructor line 76, restartDebounced line 286: the analysis options
\* change; when the handler is registered the debounced call is scheduled
\* (a call scheduled already is put off)
AnalysisOptionsChange ==
    /\ changes < MaxChanges
    /\ changes' = changes + 1
    /\ restartTimer' = (restartTimer \/ HandlerRegistered)
    /\ UNCHANGED <<languageClient, disposables, disposed, savedArgs, clients,
                   subscriptions, runs, requests, extensionVars, cacheVars, editorVars>>

\* restartDebounced line 287-289, restart line 291-294: the debounce delay
\* ends; dispose(), then startup with the saved arguments up to its first
\* await
Restart ==
    /\ restartTimer
    /\ Len(runs) < MaxStartups
    /\ restartTimer' = FALSE
    /\ \E stopOk \in BOOLEAN : DisposeEffects(stopOk)
    /\ runs' = Append(runs, NewRun(savedArgs))
    /\ UNCHANGED <<savedArgs, requests, changes,
                   extensionVars, cacheVars, editorVars>>

\* handleProvide* line 140-284 up to its await: a capability request; it is
\* sent to the client when this.languageClient is set and the call awaits
\* sendRequest (pc "sent"); with no client (client 0) nothing is sent and
\* undefined is returned.  converter: the client whose
\* protocol2CodeConverter made the result
ProvideRequest(kind) ==
    /\ Len(requests) < MaxRequests
    /\ requests' = Append(requests,
          [kind |-> kind, client |-> languageClient,
           pc |-> IF HasLanguageClient THEN "sent" ELSE "undefined",
           converter |-> 0])
    /\ UNCHANGED <<languageClient, disposables, disposed, savedArgs, clients,
                   subscriptions, runs, restartTimer, changes,
                   extensionVars, cacheVars, editorVars>>

\* what sendRequest can settle with: a result that is not empty, an empty
\* list, no result (null or undefined), a rejection
RequestAnswers == {"result", "empty", "none", "rejected"}

\* handleProvide* after its await, the test of the result: handleProvide-
\* DocumentSymbols (line 263) wants a result with a length, the other
\* methods any result that is not null or undefined, an empty list included
ResultTaken(kind, answer) ==
    \/ answer = "result"
    \/ answer = "empty" /\ kind # "documentSymbols"

\* handleProvide* after its await: the conversion of a taken result reads
\* this.languageClient again.  handleProvideReferences (line 204-209) reads
\* it in the callback of result.map, once for each element: never for an
\* empty list
ReadsClient(kind, answer) ==
    /\ ResultTaken(kind, answer)
    /\ ~(kind = "references" /\ answer = "empty")

\* handleProvide* line 140-284 after its await: sendRequest of request q
\* settles.  A rejection rejects the call and a result that is not taken
\* returns undefined; a taken result is converted with
\* this.languageClient.protocol2CodeConverter, where this.languageClient is
\* read again: it is the client of that moment, and with none (after a
\* dispose) the call throws a TypeError.  converter 0 on a converted result:
\* no converter was needed
SendRequestSettles(q, answer) ==
    /\ requests[q].pc = "sent"
    /\ requests' = [requests EXCEPT
          ![q].pc = CASE answer = "rejected" -> "rejected"
                      [] ~ResultTaken(requests[q].kind, answer) -> "undefined"
                      [] ~ReadsClient(requests[q].kind, answer) -> "converted"
                      [] OTHER -> IF HasLanguageClient THEN "converted"
                                  ELSE "typeError",
          ![q].converter = IF ReadsClient(requests[q].kind, answer)
                           THEN languageClient ELSE 0]
    /\ UNCHANGED <<languageClient, disposables, disposed, savedArgs, clients,
                   subscriptions, runs, restartTimer, changes,
                   extensionVars, cacheVars, editorVars>>

\* lsExtension.loadExtensionArgs when the load-extension command is invoked:
\* an arguments object or undefined
LoadArgs == {"x", Undefined}

\* handleIntellicodeCommands line 299-302: the member of extensionLoadedArgs
\* that stands for the arguments
LoadedKey(args) == IF args = Undefined THEN "" ELSE args

\* handleIntellicodeCommands line 296-308: the load-extension command is
\* invoked.  The call is logged with the client python/loadExtension was
\* sent to (client 0: nothing was sent)
HandleIntellicodeCommands(args) ==
    /\ Len(loadRequests) < MaxLoads
    /\ IF LoadedKey(args) \in extensionLoadedArgs
       THEN /\ loadRequests' = Append(loadRequests, [args |-> args, client |-> 0])
            /\ UNCHANGED extensionLoadedArgs
       ELSE /\ extensionLoadedArgs' = extensionLoadedArgs \cup {LoadedKey(args)}
            /\ loadRequests' =
                  Append(loadRequests, [args |-> args, client |-> languageClient])
    /\ UNCHANGED <<languageClient, disposables, disposed, savedArgs, clients,
                   subscriptions, runs, requests, restartTimer, changes,
                   cacheVars, editorVars>>

\* the states of a server: Ready once the client of a server that is not
\* disposed has its initializeResult, Starting while a startup is under way
\* before that, Disposed after dispose()
Ready ==
    /\ ~disposed
    /\ HasLanguageClient
    /\ clients[languageClient].initializeResult

Starting ==
    /\ ~disposed
    /\ ~Ready
    /\ \E r \in DOMAIN runs : ~RunSettled(r)

\* one DotNetServer on its own
InitServer ==
    /\ cache = <<>>
    /\ jediServer = 0
    /\ currentServer = NoServer
    /\ resource = Undefined
    /\ promises = <<>>
    /\ servers = <<>>
    /\ workspaceFolders = {}
    /\ settings = NothingSet
    /\ experiments = {LSEnabled}
    /\ switchLS = Unset
    /\ selectionEvent = NoEvent
    /\ telemetry = <<>>
    /\ prompts = 0
    /\ reloaded = FALSE
    /\ item = NoAnswer
    /\ NewDotNetServer
    /\ NewVsCodeLanguageServer

\* the steps of startup run r: the promise or the sleep it awaits settles
\* and its continuation runs
RunStep(r) ==
    /\ r \in DOMAIN runs
    /\ \/ \E ok \in BOOLEAN : EnsureSettles(r, ok)
       \/ \E ok \in BOOLEAN : InitializeSettles(r, ok)
       \/ \E ok \in BOOLEAN : OptionsSettle(r, ok)
       \/ \E ok \in BOOLEAN : CreateSettles(r, ok)
       \/ Poll(r)
       \/ \E ok \in BOOLEAN : TestServicesSettle(r, ok)

NextServer ==
    \/ \E args \in StartupInputs : Startup(args)
    \/ \E r \in 1..MaxStartups : RunStep(r)
    \/ \E c \in DOMAIN clients : ClientInitializes(c)
    \/ ServerDispose
    \/ AnalysisOptionsChange
    \/ Restart
    \/ \E kind \in RequestKinds : ProvideRequest(kind)
    \/ \E q \in DOMAIN requests, answer \in RequestAnswers :
          SendRequestSettles(q, answer)

SpecServer == InitServer /\ [][NextServer]_vars

\* the event loop runs the continuation of every promise and timer that
\* settles, and the promises and sleeps a startup awaits do settle; nothing
\* makes a language server answer its initialize request
FairSpecServer ==
    SpecServer /\ \A r \in 1..MaxStartups : WF_vars(RunStep(r))

\* the first startup of a server
FirstStartup(args) ==
    /\ Len(runs) = 0
    /\ Startup(args)

\* a change of the analysis options of a server that has been started
ChangeAfterStartup ==
    /\ Len(runs) >= 1
    /\ AnalysisOptionsChange

\* a DotNetServer that is started once, whose analysis options change
\* afterwards, and that only its own restarts dispose
NextRestart ==
    \/ \E args \in StartupInputs : FirstStartup(args)
    \/ \E r \in 1..MaxStartups : RunStep(r)
    \/ \E c \in DOMAIN clients : ClientInitializes(c)
    \/ ChangeAfterStartup
    \/ Restart

SpecRestart == InitServer /\ [][NextRestart]_vars

\* dispose() called on a server whose startup has been called
DisposeAfterStartup ==
    /\ Len(runs) >= 1
    /\ ServerDispose

\* a DotNetServer that is started once and disposed afterwards, with no
\* startup and no restart after that
NextDispose ==
    \/ \E args \in StartupInputs : FirstStartup(args)
    \/ \E r \in 1..MaxStartups : RunStep(r)
    \/ \E c \in DOMAIN clients : ClientInitializes(c)
    \/ DisposeAfterStartup
    \/ \E kind \in RequestKinds : ProvideRequest(kind)
    \/ \E q \in DOMAIN requests, answer \in RequestAnswers :
          SendRequestSettles(q, answer)

SpecDispose == InitServer /\ [][NextDispose]_vars

\* a DotNetServer that is started once and on which the load-extension
\* command is invoked
NextExtension ==
    \/ \E args \in StartupInputs : FirstStartup(args)
    \/ \E r \in 1..MaxStartups : RunStep(r)
    \/ \E c \in DOMAIN clients : ClientInitializes(c)
    \/ \E args \in LoadArgs : HandleIntellicodeCommands(args)

SpecExtension == InitServer /\ [][NextExtension]_vars

(* ------------------------- VsCodeLanguageServer ------------------------ *)
(* languageServer/vscodeLanguageServer.ts line 164-180, on a               *)
(* LanguageServerCache.  cache.get gives the promise cached under the key   *)
(* of the resource, the same one for two resources of one key, and a        *)
(* promise resolves to the server its createServer run returns: one of its  *)
(* own or the Jedi singleton.                                               *)

\* changedActiveClient line 175: the servers that have onDidChangeCodeLenses;
\* DotNetServer (dotNetServer.ts line 55-397) has no such member
HasCodeLensEvent(h) == servers[h].type = "Jedi"

\* changedActiveClient line 170-179, as next values of activeServer and
\* activeClientDisposable
ChangedActiveClient(newClient) ==
    IF newClient # activeServer
    THEN /\ activeServer' = newClient
         /\ activeClientDisposable' =
               IF HasCodeLensEvent(newClient) THEN newClient
               ELSE activeClientDisposable
    ELSE UNCHANGED <<activeServer, activeClientDisposable>>

\* the promise cache.get(r) returns: the cached one, or the one createServer
\* is about to make
PromiseOfGet(r) ==
    IF CacheHit(GetKey(r, "", workspaceFolders))
    THEN cache[GetKey(r, "", workspaceFolders)]
    ELSE Len(promises) + 1

\* changedTextEditor line 164-168: the active editor changes to a document
\* of resource r.  cache.get(r) gives the promise of r, constructing on a
\* miss, and changedActiveClient is attached to it as a then-callback: it is
\* due at once (queued, to run in a later microtask) when the promise has
\* resolved already, it waits while the promise is pending and it never runs
\* when the promise has rejected
ChangedTextEditor(r) ==
    /\ Len(editorGets) < MaxEditorChanges
    /\ GetWith(r, "", resource)
    /\ editorGets' = Append(editorGets,
          [resource |-> r, promise |-> PromiseOfGet(r),
           done |-> promises'[PromiseOfGet(r)].pc = "rejected",
           queued |-> IF promises'[PromiseOfGet(r)].pc = "resolved"
                      THEN NextTicket ELSE 0])
    /\ UNCHANGED <<resource, activeServer, activeClientDisposable>>

\* the then-callbacks that are due and have not run
Due == {g \in DOMAIN editorGets : editorGets[g].queued > 0 /\ ~editorGets[g].done}

\* changedTextEditor line 166: the then-callback of call g, the first one
\* that is due, runs changedActiveClient with the server its promise
\* resolved to
ThenChangedActiveClient(g) ==
    /\ g \in Due
    /\ \A h \in Due :
          \/ editorGets[g].queued < editorGets[h].queued
          \/ editorGets[g].queued = editorGets[h].queued /\ g <= h
    /\ editorGets' = [editorGets EXCEPT ![g].done = TRUE]
    /\ ChangedActiveClient(promises[editorGets[g].promise].server)
    /\ UNCHANGED <<cacheVars, serverVars>>

\* changes of the active editor, the steps of the constructions they begin
\* and the then-callbacks
NextEditor ==
    \/ \E r \in EditorResources : ChangedTextEditor(r)
    \/ \E p \in DOMAIN promises :
          \E outcome \in {"supported", "unsupported", "rejected"} :
             DiagnoseSettles(p, outcome)
    \/ \E p \in DOMAIN promises : LogStartupSettles(p)
    \/ \E p \in DOMAIN promises, ok \in BOOLEAN : StartupSettles(p, ok)
    \/ \E p \in DOMAIN promises : FallbackLogStartupSettles(p)
    \/ \E p \in DOMAIN promises, ok \in BOOLEAN : FallbackStartupSettles(p, ok)
    \/ \E t \in DOMAIN telemetry : StorageAnswers(t)
    \/ \E g \in DOMAIN editorGets : ThenChangedActiveClient(g)

SpecEditor == Init /\ [][NextEditor]_vars

(* ------------------------- properties of the cache --------------------- *)

\* the server instances createServer run p obtained from the container
ServersOf(p) == {h \in DOMAIN servers : servers[h].promise = p}

\* promise p is the one the cache holds for its key
InCache(p) ==
    /\ promises[p].key \in DOMAIN cache
    /\ cache[promises[p].key] = p

\* the first startup of run p was on the server chosen from the gate's answer
\* and the platform diagnosis, and it rejected
FirstStartupFailed(p) ==
    /\ promises[p].first # 0
    /\ servers[promises[p].first].startup = "rejected"

\* C1: gets for one key that arrive while its construction is in flight
\* share that construction: a later construction for the same key exists only
\* if the earlier one was evicted, a shared construction has obtained one
\* server, and every server a promise resolves to was started exactly once.
C1_SharedConstruction ==
    /\ \A p, q \in DOMAIN promises :
          (p < q /\ promises[p].key = promises[q].key /\ ~Settled(p))
             => promises[p].thens > 0
    /\ \A p \in DOMAIN promises :
          (promises[p].shared /\ promises[p].pc = "startup")
             => ServersOf(p) = {promises[p].server}
    /\ \A p \in DOMAIN promises :
          promises[p].pc = "resolved"
             => servers[promises[p].server].startups = 1

\* a second get arrived for a key whose only construction is awaiting the one
\* startup it called
C1_Witness ==
    \E p \in DOMAIN promises :
       /\ promises[p].shared
       /\ promises[p].pc = "startup"
       /\ InCache(p)
       /\ ServersOf(p) = {promises[p].server}
       /\ servers[promises[p].server].startups = 1
       /\ \A q \in DOMAIN promises \ {p} : promises[q].key # promises[p].key

\* C2: at no time are there two in-flight constructions for the same key, a
\* folder event included.
C2_OneConstructionInFlightPerKey ==
    \A p, q \in DOMAIN promises :
       (p # q /\ promises[p].key = promises[q].key) => Settled(p) \/ Settled(q)

\* C3: when the gate chose the rich engine, the platform is supported and
\* the rich startup fails, a lightweight server is obtained (once the run has
\* logged the start) and started once and the get settles as that startup
\* does, resolving to the lightweight one.
C3_FallbackToLightweight ==
    \A p \in DOMAIN promises :
       (/\ ~promises[p].chosen
        /\ promises[p].diagnostic = "supported"
        /\ FirstStartupFailed(p))
       => IF promises[p].pc = "fallback"
          THEN /\ promises[p].jedi
               /\ ServersOf(p) = {promises[p].first}
          ELSE
          /\ promises[p].server # promises[p].first
          /\ ServersOf(p) = {promises[p].first, promises[p].server}
          /\ servers[promises[p].server].type = "Jedi"
          /\ servers[promises[p].server].startups = 1
          /\ servers[promises[p].server].startup = "pending"
                => promises[p].pc = "fallbackStartup"
          /\ servers[promises[p].server].startup = "resolved"
                => promises[p].pc = "resolved"

\* a get resolved to the lightweight server after the rich startup failed
C3_Witness ==
    \E p \in DOMAIN promises :
       /\ ~promises[p].chosen
       /\ promises[p].diagnostic = "supported"
       /\ FirstStartupFailed(p)
       /\ promises[p].pc = "resolved"
       /\ servers[promises[p].server].type = "Jedi"

\* C4: when the gate chose the lightweight engine and its startup fails, the
\* get rejects with that error and no other server is obtained.
C4_NoFallbackFromLightweight ==
    \A p \in DOMAIN promises :
       (promises[p].chosen /\ FirstStartupFailed(p))
       => /\ promises[p].pc = "rejected"
          /\ promises[p].error = StartupError(promises[p].first)
          /\ ServersOf(p) = {promises[p].first}

\* a get rejected by the failed startup of the lightweight server it chose
C4_Witness ==
    \E p \in DOMAIN promises :
       /\ promises[p].chosen
       /\ FirstStartupFailed(p)
       /\ promises[p].pc = "rejected"
       /\ servers[promises[p].first].type = "Jedi"

\* C5: when the rich startup and then the lightweight fallback startup both
\* fail, the get rejects with the error of the lightweight startup, and no
\* construction ever obtains a third server.
C5_DoubleFailureRejects ==
    \A p \in DOMAIN promises :
       /\ Cardinality(ServersOf(p)) <= 2
       /\ (/\ promises[p].first # 0
           /\ promises[p].server # promises[p].first
           /\ servers[promises[p].server].startup = "rejected")
          => /\ promises[p].pc = "rejected"
             /\ promises[p].error = StartupError(promises[p].server)
             /\ servers[promises[p].server].type = "Jedi"
             /\ servers[promises[p].first].startup = "rejected"
             /\ Cardinality(ServersOf(p)) = 2

\* a get rejected after both of its startups failed
C5_Witness ==
    \E p \in DOMAIN promises :
       /\ FirstStartupFailed(p)
       /\ promises[p].server # promises[p].first
       /\ servers[promises[p].server].startup = "rejected"
       /\ promises[p].pc = "rejected"

\* C6: a get that begins after a lightweight server was constructed, and
\* resolves to a lightweight server, resolves to that same instance and
\* obtains and starts no server of its own.
C6_LaterLightweightGetReusesHandle ==
    \A q \in DOMAIN promises :
       (/\ promises[q].singleton # 0
        /\ promises[q].pc = "resolved"
        /\ servers[promises[q].server].type = "Jedi")
       => /\ promises[q].server = promises[q].singleton
          /\ ServersOf(q) = {}

\* C7: at most one lightweight server instance exists at any time.
C7_OneLightweightInstance ==
    Cardinality({h \in DOMAIN servers : servers[h].type = "Jedi"}) <= 1

\* C8: a folder event that removes a folder removes the cache entries of that
\* folder and has the servers they resolved to disposed (by a callback that
\* is due when the handler returns), and a get that follows
\* for a resource under a folder whose entry was evicted starts a
\* construction rather than handing out a disposed server.
C8_FreshConstructionAfterEviction ==
    [][/\ workspaceFolders' # workspaceFolders
          => \A k \in DOMAIN cache :
                LET pr == promises[cache[k]]
                IN  (pr.folder \in workspaceFolders \ workspaceFolders')
                    => /\ k \notin DOMAIN cache'
                       /\ pr.pc = "resolved"
                             => promises'[cache[k]].queued = pr.queued + 1
       /\ Len(promises') = Len(promises) + 1
          => LET q == promises'[Len(promises')]
             IN  (\E p \in DOMAIN promises :
                     /\ ~InCache(p)
                     /\ promises[p].folder # workspacePathNameForGlobalWorkspaces
                     /\ promises[p].folder = ContainingFolder(q.resource))
                 => (q.pc = "resolved" => ~servers'[q.server].disposed)
      ]_vars

\* C9: a folder event leaves the entries of the folders that are still open
\* in the cache, and attaches no callback that disposes the servers they
\* resolve to.
C9_EntriesOfOpenFoldersKept ==
    [][workspaceFolders' # workspaceFolders
          => \A k \in DOMAIN cache :
                LET pr == promises[cache[k]]
                IN  pr.folder \in workspaceFolders'
                    => /\ k \in DOMAIN cache'
                       /\ promises'[cache[k]] = pr
      ]_vars

\* C10: the singleton lightweight server is never disposed.
C10_SingletonNeverDisposed ==
    jediServer # 0 => ~servers[jediServer].disposed

\* C19: when the gate chose the language server and diagnose resolves with
\* a non-empty list, the run obtains and starts a Jedi server only (once it
\* has logged the start), never a DotNet one, and sends the
\* platform-not-supported event once.
C19_UnsupportedPlatformUsesLightweight ==
    \A p \in DOMAIN promises :
       (~promises[p].chosen /\ promises[p].diagnostic = "unsupported")
       => /\ promises[p].platformEvents = 1
          /\ promises[p].jedi
          /\ IF promises[p].pc = "new"
             THEN ServersOf(p) = {}
             ELSE /\ ServersOf(p) = {promises[p].first}
                  /\ promises[p].server = promises[p].first
                  /\ servers[promises[p].first].type = "Jedi"

\* a get resolved to the Jedi server its run started after diagnose found
\* the platform unsupported
C19_Witness ==
    \E p \in DOMAIN promises :
       /\ ~promises[p].chosen
       /\ promises[p].diagnostic = "unsupported"
       /\ promises[p].pc = "resolved"
       /\ servers[promises[p].server].type = "Jedi"
       /\ promises[p].platformEvents = 1

\* C20: a rejection of diagnose never keeps createServer from obtaining and
\* starting a server, and get does not reject because of it.
C20_DiagnosticFailureDoesNotBlock ==
    \A p \in DOMAIN promises :
       promises[p].diagnostic = "rejected"
          => /\ promises[p].first # 0
             /\ promises[p].error # DiagnoseError

(* ------------------------- properties of the gate --------------------- *)

\* the resources activate is called with when the gate is explored: none, a
\* file of a folder, another folder
GateResources == {Undefined, "/w/a.py", "/w-x"}

\* the scopes of a configuration that set python.jediEnabled
ScopesSet(st) == {s \in Scopes : st[s] # Unset}

\* python.jediEnabled unset everywhere, or set to true or to false at up to
\* MaxScopesSet of the scopes
AllSettings ==
    {st \in [Scopes -> {Unset, "true", "false"}] :
        Cardinality(ScopesSet(st)) <= MaxScopesSet}

\* the same, with and without an inspect that gives undefined
GateSettings == AllSettings \cup {Uninspectable(st) : st \in AllSettings}

\* every membership of the two experiment groups
AllExperiments == SUBSET {LSEnabled, LSControl}

\* a fresh cache in any configuration and experiment membership
InitGate ==
    /\ cache = <<>>
    /\ jediServer = 0
    /\ currentServer = NoServer
    /\ resource = Undefined
    /\ promises = <<>>
    /\ servers = <<>>
    /\ workspaceFolders \in SUBSET Folders
    /\ settings \in GateSettings
    /\ experiments \in AllExperiments
    /\ switchLS = Unset
    /\ selectionEvent = NoEvent
    /\ telemetry = <<>>
    /\ prompts = 0
    /\ reloaded = FALSE
    /\ item = NoAnswer
    /\ NewDotNetServer
    /\ NewVsCodeLanguageServer

\* activate(resource): this.resource is set and useJedi() decides for it;
\* then the steps createServer takes by itself after each of its awaits, and
\* the answers of the storage
NextGate ==
    \/ \E r \in GateResources : Activate(r)
    \/ \E p \in DOMAIN promises :
          \E outcome \in {"supported", "unsupported", "rejected"} :
             DiagnoseSettles(p, outcome)
    \/ \E p \in DOMAIN promises : LogStartupSettles(p)
    \/ \E p \in DOMAIN promises, ok \in BOOLEAN : StartupSettles(p, ok)
    \/ \E p \in DOMAIN promises : FallbackLogStartupSettles(p)
    \/ \E p \in DOMAIN promises, ok \in BOOLEAN : FallbackStartupSettles(p, ok)
    \/ \E t \in DOMAIN telemetry : StorageAnswers(t)

SpecGate == InitGate /\ [][NextGate]_vars

\* inspect('jediEnabled') reports the scopes for r
Inspectable(r) == ~Inspect(r, settings).undefined

\* python.jediEnabled is set at one of the three scopes inspect reports for r
ExplicitlySet(r) ==
    \/ settings["global"] # Unset
    \/ settings["workspace"] # Unset
    \/ /\ ContainingFolder(r) \in workspaceFolders
       /\ settings[ContainingFolder(r)] # Unset

\* C17: when python.jediEnabled is set at some scope for the resource, the
\* gate returns the resolved value of the setting, whatever the experiment
\* groups the session is in.
C17_ExplicitSettingIsAuthoritative ==
    [][Len(promises') = Len(promises) + 1
          => LET q == promises'[Len(promises')]
             IN  ExplicitlySet(resource')
                 => q.chosen = JediEnabledSetting(resource', settings)
      ]_vars

\* once an earlier createServer had completed and set this.jediServer, a
\* member of the LSEnabled group with the setting set to true activated
\* another resource and was given the lightweight server
C17_Witness ==
    \E p \in DOMAIN promises :
       /\ p > 1
       /\ promises[p].singleton # 0
       /\ promises[p].resource = resource
       /\ ExplicitlySet(resource)
       /\ LSEnabled \in experiments
       /\ JediEnabledSetting(resource, settings)
       /\ promises[p].chosen

\* C18 as stated: with the setting unset at the three scopes the gate returns
\* lightweight (true) for a member of the LSEnabled group, and the resolved
\* value of the setting otherwise.
C18_EnabledGroupGetsLightweight ==
    [][Len(promises') = Len(promises) + 1
          => LET q == promises'[Len(promises')]
             IN  ~ExplicitlySet(resource')
                 => q.chosen = IF LSEnabled \in experiments THEN TRUE
                               ELSE JediEnabledSetting(resource', settings)
      ]_vars

\* C18: with the setting unset at the three scopes, and inspect reporting
\* them, the gate returns false (the language server) for a member of the
\* LSEnabled group, and the resolved value of the setting, the default,
\* otherwise; the LSControl group does not change the result.  When inspect
\* reports nothing the gate returns the resolved value of the setting.
C18_EnabledGroupGetsLanguageServer ==
    [][Len(promises') = Len(promises) + 1
          => LET q == promises'[Len(promises')]
             IN  ~ExplicitlySet(resource')
                 => q.chosen =
                       IF LSEnabled \in experiments /\ Inspectable(resource')
                       THEN FALSE
                       ELSE JediEnabledSetting(resource', settings)
      ]_vars

\* once an earlier createServer had completed and set this.jediServer, a
\* member of both groups with nothing set activated another resource and was
\* given the language server
C18_Witness ==
    \E p \in DOMAIN promises :
       /\ p > 1
       /\ promises[p].singleton # 0
       /\ promises[p].resource = resource
       /\ Inspectable(resource)
       /\ ~ExplicitlySet(resource)
       /\ experiments = {LSEnabled, LSControl}
       /\ ~promises[p].chosen

(* ---------------------- properties of the lifecycle -------------------- *)

\* C11: dispose() calls dispose on the server of currentServer and on no
\* other one (on none when there is no currentServer), and leaves the cache,
\* the singleton and currentServer as they were.
C11_DisposeOnlyCurrent ==
    [][Dispose
          => /\ \A h \in DOMAIN servers :
                   servers'[h].disposed # servers[h].disposed
                      => h = currentServer.server
             /\ currentServer.server # 0
                   => servers'[currentServer.server].disposed
             /\ cache' = cache
             /\ jediServer' = jediServer
             /\ currentServer' = currentServer
      ]_vars

\* dispose() has disposed the current server while the cache holds an entry
\* that resolved to another server, which is left undisposed
C11_Witness ==
    /\ currentServer.server # 0
    /\ servers[currentServer.server].disposed
    /\ \E p \in DOMAIN promises :
          /\ InCache(p)
          /\ promises[p].pc = "resolved"
          /\ promises[p].server # currentServer.server
          /\ ~servers[promises[p].server].disposed

\* C12: after dispose() the server of every cache entry that has been
\* constructed has been disposed.
C12_DisposeDisposesEveryEntry ==
    [][Dispose
          => \A k \in DOMAIN cache :
                promises[cache[k]].pc = "resolved"
                   => servers'[promises[cache[k]].server].disposed
      ]_vars

\* C13: a configuration-change event that is not about python.jediEnabled,
\* or after which useJedi() gives the kind of currentServer, shows no prompt
\* and leaves currentServer as it was.
C13_NoOpConfigurationChange ==
    [][\A edit \in ConfigEdits \cup {OtherSetting} :
          (/\ OnDidChangeConfiguration(edit)
           /\ \/ edit = OtherSetting
              \/ /\ currentServer.server # 0
                 /\ currentServer.jedi = UseJedi(resource, settings'))
          => /\ prompts' = prompts
             /\ currentServer' = currentServer
      ]_vars

\* python.jediEnabled was changed while a server of the kind it asks for was
\* current, and no prompt was ever shown
C13_Witness ==
    /\ settings["global"] = "false"
    /\ currentServer.server # 0
    /\ ~currentServer.jedi
    /\ prompts = 0
    /\ item = NoAnswer

\* C14: a configuration-change event obtains, starts and disposes no server
\* and leaves the cache, the singleton and currentServer as they were; when
\* the kind wanted differs from currentServer's it shows the reload prompt, and
\* the window is reloaded only when the answer is the reload button.
C14_ConfigurationChangeOnlyPrompts ==
    [][/\ \A edit \in ConfigEdits \cup {OtherSetting} :
             OnDidChangeConfiguration(edit)
                => /\ UNCHANGED <<servers, promises, cache, jediServer,
                                  currentServer, reloaded>>
                   /\ (/\ edit # OtherSetting
                       /\ ~(/\ currentServer.server # 0
                            /\ currentServer.jedi = UseJedi(resource, settings')))
                      => prompts' = prompts + 1
       /\ \A answer \in Answers :
             PromptAnswered(answer)
                => /\ UNCHANGED <<servers, promises, cache, jediServer,
                                  currentServer>>
                   /\ reloaded' = (answer = ReloadButton)
       /\ reloaded' # reloaded => item' = ReloadButton
      ]_vars

\* the reload prompt was answered with the reload button and the window was
\* reloaded
C14_Witness ==
    /\ reloaded
    /\ item = ReloadButton
    /\ prompts = 0

\* C15: on a cache miss the kind of server get(resource, interpreter) chooses
\* is the one the settings and experiments give for that resource, whatever
\* resource activate was last called with.
C15_GateUsesResourceOfGet ==
    [][Len(promises') = Len(promises) + 1
          => LET q == promises'[Len(promises')]
             IN  q.chosen = UseJedi(q.resource, settings)
      ]_vars

\* C16: every startup call of a createServer run is given the resource and
\* the interpreter get was called with.
C16_StartupGetsResourceAndInterpreter ==
    \A h \in DOMAIN servers :
       /\ servers[h].resource = promises[servers[h].promise].resource
       /\ servers[h].interpreter = promises[servers[h].promise].interpreter

\* C21: with no folder event in between, a further activate(r) for the
\* resource that was activated last starts no construction, obtains and
\* starts no server, and leaves the cache (hence the promise returned), the
\* singleton and currentServer as they were.
C21_ActivateIsIdempotent ==
    [][\A r \in ActivateInputs :
          (Activate(r) /\ resource = r)
          => /\ Len(promises') = Len(promises)
             /\ UNCHANGED <<cache, servers, jediServer, currentServer, resource>>
      ]_vars

\* activate was repeated for the resource whose construction is in flight
C21_Witness ==
    /\ resource \in ActivateInputs
    /\ \E p \in DOMAIN promises :
          /\ InCache(p)
          /\ promises[p].key = GetKey(resource, "", workspaceFolders)
          /\ promises[p].shared

\* C27: a call of the helper emits {lsStartup} only when its outcome equals
\* the outcome persisted before the call, and {switchTo} on the first call
\* ever (nothing persisted) and when the persisted outcome differs; when the
\* call has emitted its event the persisted value is its outcome.
C27_FirstCallReportsSwitch ==
    [][/\ \A t \in DOMAIN telemetry :
             (StorageAnswers(t) /\ Len(telemetry') < Len(telemetry))
             => /\ selectionEvent'[1] =
                      IF telemetry[t].persisted = BoolSetting(telemetry[t].jedi)
                      THEN "lsStartup" ELSE "switchTo"
                /\ switchLS' = BoolSetting(telemetry[t].jedi)
       /\ (telemetry' = telemetry /\ selectionEvent' # selectionEvent)
             => /\ selectionEvent'[1] = "lsStartup"
                /\ switchLS = BoolSetting(selectionEvent'[2])
                /\ switchLS' = switchLS
      ]_vars

\* C28: once every activate and get has settled, currentServer is the server
\* (and its kind) that serves the resource activated last.
C28_CurrentIsLastActivated ==
    (/\ resource # Undefined
     /\ \A p \in DOMAIN promises : Settled(p)
     /\ CacheHit(GetKey(resource, "", workspaceFolders)))
    => LET pr == promises[cache[GetKey(resource, "", workspaceFolders)]]
       IN  pr.pc = "resolved"
           => /\ currentServer.server = pr.server
              /\ currentServer.jedi = (servers[pr.server].type = "Jedi")

\* C29: an entry evicted while its construction was in flight is out of the
\* cache at once, and the server the construction resolves to is disposed
\* once it has resolved, by the callbacks that are due from then on; a
\* construction that rejects leaves nothing to dispose.
C29_EvictedInFlightIsDisposed ==
    \A p \in DOMAIN promises :
       promises[p].thens > 0
          => /\ ~InCache(p)
             /\ promises[p].pc # "resolved" => promises[p].queued = 0
             /\ promises[p].pc = "resolved"
                   => \/ promises[p].queued > 0
                      \/ servers[promises[p].server].disposed
             /\ promises[p].pc = "rejected"
                   => \A h \in ServersOf(p) : servers[h].startup = "rejected"

\* a construction evicted in flight has resolved and its server is disposed
C29_Witness ==
    \E p \in DOMAIN promises :
       /\ promises[p].thens > 0
       /\ promises[p].pc = "resolved"
       /\ promises[p].queued = 0
       /\ servers[promises[p].server].disposed

(* ------------------------- properties of the key ----------------------- *)

\* the (resource, interpreter) arguments get is called with when the keys
\* are explored
KeyInputs ==
    {"/w", "/w/a.py", "/w-/p"} \X {"", "/py", "/p-/py"}

\* a fresh cache with any of the key folders open
InitKey ==
    /\ cache = <<>>
    /\ jediServer = 0
    /\ currentServer = NoServer
    /\ resource = Undefined
    /\ promises = <<>>
    /\ servers = <<>>
    /\ workspaceFolders \in SUBSET KeyFolders
    /\ settings = NothingSet
    /\ experiments = {LSEnabled}
    /\ switchLS = Unset
    /\ selectionEvent = NoEvent
    /\ telemetry = <<>>
    /\ prompts = 0
    /\ reloaded = FALSE
    /\ item = NoAnswer
    /\ NewDotNetServer
    /\ NewVsCodeLanguageServer

\* get(resource, interpreter)
NextKey == \E in \in KeyInputs : Get(in[1], in[2])

SpecKey == InitKey /\ [][NextKey]_vars

\* C30: two gets have the same key exactly when they have the same folder
\* identifier and the same interpreter path: a get finds a cached promise
\* exactly when an earlier get had its folder identifier and interpreter.
C30_KeyIsInjective ==
    [][\A in \in KeyInputs :
          Get(in[1], in[2])
          => (Len(promises') = Len(promises)
              <=> \E p \in DOMAIN promises :
                     /\ promises[p].folder =
                           GetWorkspaceFolderIdentifier(in[1], workspaceFolders,
                               workspacePathNameForGlobalWorkspaces)
                     /\ promises[p].interpreter = in[2])
      ]_vars


(* ---------------------- properties of DotNetServer ---------------------- *)

\* C22: a startup whose client dispose() stopped while the startup was in
\* the readiness poll resolves, without error and without any post-ready
\* step: no registration of progress reporting or of the command, no read
\* of the settings and no call of testManager.activate.
C22_DisposedStartupResolves ==
    \A r \in 1..MaxStartups :
        (/\ r \in DOMAIN runs
         /\ runs[r].pc = "ready"
         /\ clients[runs[r].client].stops > 0)
        ~> (/\ r \in DOMAIN runs
            /\ runs[r].pc = "resolved"
            /\ ~runs[r].registered
            /\ ~runs[r].activated)

\* C23: a startup called on a server that is Starting or Ready rejects with
\* an 'already started' error: the run it begins is rejected at once and
\* goes no further.
C23_StartupWhenStartedRejects ==
    [][(Len(runs') > Len(runs) /\ (Starting \/ Ready) /\ ~disposed') =>
          runs'[Len(runs')].pc = "rejected"]_vars

\* C24: once dispose() has been called, every startup that has begun,
\* whether or not its client was created by then, eventually settles, even
\* if no client ever gets its initializeResult.
C24_DisposedStartupTerminates ==
    \A r \in 1..MaxStartups :
        (r \in DOMAIN runs /\ disposed) ~> (r \in DOMAIN runs /\ RunSettled(r))

\* C25: a capability request of any kind is sent to the client exactly when
\* the server is Ready; on a server that is not Ready nothing is sent and no
\* result is returned.
C25_RequestsForwardedOnlyWhenReady ==
    [][Len(requests') > Len(requests) =>
          (requests'[Len(requests')].client # 0 <=> Ready)]_vars

\* C26: dispose() is idempotent: no step, a further dispose() included,
\* calls stop on a client that was stopped already or disposes a
\* subscription that was disposed already, and a disposed server stays
\* disposed.
C26_DisposeIsIdempotent ==
    [][/\ disposed => disposed'
       /\ \A c \in DOMAIN clients :
             clients[c].stops >= 1 => clients'[c].stops = clients[c].stops
       /\ \A i \in DOMAIN subscriptions :
             subscriptions[i].disposes >= 1 =>
                 subscriptions'[i].disposes = subscriptions[i].disposes]_vars

\* dispose() has stopped a started client and disposed its subscriptions;
\* any further dispose() starts from this state
C26_Witness ==
    /\ disposed
    /\ languageClient = 0
    /\ disposables = <<>>
    /\ \E c \in DOMAIN clients : clients[c].stops = 1
    /\ \A i \in DOMAIN subscriptions : subscriptions[i].disposes = 1
    /\ Len(subscriptions) >= 2

\* C31: on a server that has been started, every change of the analysis
\* options schedules a restart, also a change that comes after an earlier
\* restart.
C31_EveryChangeRestarts ==
    [][(changes' > changes /\ Len(runs) >= 1) => restartTimer']_vars

\* C38: a startup made by a restart (every startup after the first, on a
\* server started once) that has resolved with the client it created
\* initialized and still the client of the server has done the post-ready
\* registration (progress reporting, command, testManager.activate).
C38_RestartRegistersAgain ==
    \A r \in DOMAIN runs \ {1} :
        (/\ runs[r].pc = "resolved"
         /\ runs[r].client # 0
         /\ languageClient = runs[r].client
         /\ clients[languageClient].initializeResult) =>
            (runs[r].registered /\ runs[r].activated)

\* the clients that have been started and on which stop was never called
LiveClients == {c \in DOMAIN clients : clients[c].started /\ clients[c].stops = 0}

\* C37: a server has at most one client that is started and not stopped,
\* whatever the interleaving of its startup and its restarts.
C37_AtMostOneLiveClient == Cardinality(LiveClients) <= 1

\* C36: on a server that was disposed after its startup was called and on
\* which startup is not called again, no client is created or started any
\* more, and once the startup has settled every client that was started has
\* been stopped.
C36_NoClientAfterDispose ==
    [][disposed =>
         /\ Len(clients') = Len(clients)
         /\ (\A r \in DOMAIN runs : RunSettled(r)) => LiveClients = {}]_vars

\* the subscriptions that start() of client c returned
StartSubscriptions(c) ==
    {i \in DOMAIN subscriptions :
        subscriptions[i].kind = "start" /\ subscriptions[i].client = c}

\* C33: stop is called on a client only by a dispose() of the server, which
\* then completes whether the promise of stop resolves or rejects; and the
\* dispose() of a Ready server calls stop on its client exactly once and
\* disposes the subscription of the client's start exactly once.
C33_StopOnlyOnDispose ==
    [][/\ \A c \in DOMAIN clients :
             clients'[c].stops > clients[c].stops =>
                 /\ languageClient = c
                 /\ disposed' /\ languageClient' = 0 /\ disposables' = <<>>
       /\ (Ready /\ disposed') =>
             /\ clients'[languageClient].stops = 1
             /\ StartSubscriptions(languageClient) # {}
             /\ \A i \in StartSubscriptions(languageClient) :
                   subscriptions'[i].disposes = 1]_vars

\* a server was started to Ready and did its registration, then dispose()
\* stopped its client, the stop was rejected, and the dispose completed
C33_Witness ==
    \E r \in DOMAIN runs :
        /\ runs[r].registered
        /\ runs[r].client # 0
        /\ clients[runs[r].client].initializeResult
        /\ clients[runs[r].client].stops = 1
        /\ clients[runs[r].client].stopRejected
        /\ disposed
        /\ \A i \in StartSubscriptions(runs[r].client) :
              subscriptions[i].disposes = 1

\* the load-extension arguments for which python/loadExtension was sent to
\* client c
SentTo(c) ==
    {LoadedKey(loadRequests[i].args) :
        i \in {j \in DOMAIN loadRequests : loadRequests[j].client = c}}

\* C32: a load-extension command never throws; python/loadExtension is sent
\* only to a client that has initialized; and when a startup resolves with
\* its client initialized, the request has been sent to that client for all
\* the arguments the command was invoked with until then.
C32_LoadExtensionSentOnceInitialized ==
    [][/\ Len(loadRequests') > Len(loadRequests) =>
             \/ loadRequests'[Len(loadRequests')].client = 0
             \/ clients[loadRequests'[Len(loadRequests')].client].initializeResult
       /\ \A r \in DOMAIN runs :
             (runs[r].pc # "resolved" /\ runs'[r].pc = "resolved"
                /\ runs'[r].registered) =>
                 \A key \in extensionLoadedArgs' : key \in SentTo(languageClient)']_vars

\* C34: every server that a resolved promise of the cache, or jediServer,
\* refers to is one on which dispose was not called.
C34_CachedServersNotDisposed ==
    /\ \A k \in DOMAIN cache :
          promises[cache[k]].pc = "resolved"
             => ~servers[promises[cache[k]].server].disposed
    /\ jediServer # 0 => ~servers[jediServer].disposed

\* a get or activate for key leaves every entry of the cache in place, and
\* when the promise cached for key has rejected it returns that promise:
\* nothing is constructed and no server is obtained or started
KeepsEntries(key) ==
    /\ \A k \in DOMAIN cache : k \in DOMAIN cache' /\ cache'[k] = cache[k]
    /\ (key \in DOMAIN cache /\ promises[cache[key]].pc = "rejected") =>
          /\ promises' = promises
          /\ servers' = servers
          /\ UNCHANGED <<cache, jediServer, currentServer>>

\* C35: get and activate never replace or remove an entry of the cache, and
\* for a key whose construction has rejected they return the same rejected
\* promise without a new construction or startup, as long as the entry is
\* in the cache.
C35_RejectedEntryIsKept ==
    [][/\ \A in \in GetInputs :
             Get(in[1], in[2]) => KeepsEntries(GetKey(in[1], in[2], workspaceFolders))
       /\ \A r \in ActivateInputs :
             Activate(r) => KeepsEntries(GetKey(r, "", workspaceFolders))]_vars

\* the construction for the key of a get has rejected, its promise is in the
\* cache, and the cache has room for another construction
C35_Witness ==
    \E p \in DOMAIN promises, in \in GetInputs :
        /\ promises[p].pc = "rejected"
        /\ InCache(p)
        /\ promises[p].key = GetKey(in[1], in[2], workspaceFolders)
        /\ Len(promises) < MaxServers

\* C39: once the promise of every call of changedTextEditor has settled and
\* its callback has run, and the promise of the last call has resolved,
\* activeServer is the server of the resource of the last call.
C39_ActiveServerIsLastEditor ==
    (/\ editorGets # <<>>
     /\ \A g \in DOMAIN editorGets : editorGets[g].done
     /\ promises[editorGets[Len(editorGets)].promise].pc = "resolved")
        => activeServer = promises[editorGets[Len(editorGets)].promise].server

====
